---- MODULE Spec2Model ----
(***************************************************************************)
(* File upload / Elasticsearch reconciliation (ozkan-kaya/file-upload-es). *)
(*                                                                         *)
(* The model covers the backend: the uploads directory, the Elasticsearch  *)
(* index "documents", the startup / on-demand reconciliation               *)
(* (syncFilesWithElasticsearch), the full rebuild script (reindexAll) and  *)
(* the HTTP handlers of index.js.  Every await of the JavaScript code is a *)
(* step boundary; the synchronous code between two awaits is one action.   *)
(* Every call to the index service and every text extraction may succeed   *)
(* or fail, chosen nondeterministically at the call.  A write to the index *)
(* is seen by searches only after the next refresh of the index.           *)
(***************************************************************************)
EXTENDS Integers, Sequences, FiniteSets, TLC

\* ------------------------------------------------------------------ bounds
MaxStored == 2      \* storage entries present in the initial state
MaxDocs   == 1      \* index documents present in the initial state
MaxRuns   == 2      \* reconciliation runs started on demand
MaxEnv    == 1      \* changes made directly to the storage directory
MaxClock  == 1      \* last value of the millisecond clock (Date.now)
MaxCalls  == 3      \* direct calls of the index client functions

\* --------------------------------------------------------------- file names
\* A file name is the sequence of its characters, so that path.extname,
\* toLowerCase and startsWith are computed on it as the code computes them.
NameA == <<"a", ".", "p", "d", "f">>
NameB == <<"b", ".", "D", "O", "C">>
NameC == <<"c", ".", "t", "x", "t">>
NameH == <<".", "h", ".", "p", "d", "f">>
PlacedOrder == <<NameH, NameA, NameB, NameC>>
PlacedNames == {PlacedOrder[i] : i \in 1..Len(PlacedOrder)}

toLowerCaseChar(c) ==
    CASE c = "D" -> "d" [] c = "O" -> "o" [] c = "C" -> "c"
      [] c = "P" -> "p" [] c = "F" -> "f" [] c = "X" -> "x"
      [] c = "L" -> "l" [] c = "S" -> "s" [] c = "T" -> "t"
      [] c = "R" -> "r" [] c = "Q" -> "q" [] c = "E" -> "e"
      [] OTHER -> c
toLowerCase(s) == [i \in 1..Len(s) |-> toLowerCaseChar(s[i])]

\* Position of the last "." of s, 0 when there is none.
RECURSIVE LastDot(_, _)
LastDot(s, i) == IF i = 0 THEN 0 ELSE IF s[i] = "." THEN i ELSE LastDot(s, i - 1)

\* path.extname: from the last "." to the end; empty when there is no "."
\* or when the only "." is the first character of the name.
extname(s) ==
    LET d == LastDot(s, Len(s))
    IN  IF d <= 1 THEN <<>> ELSE SubSeq(s, d, Len(s))

startsWithDot(s) == Len(s) > 0 /\ s[1] = "."

\* path.basename(p, ext): p without its ending ext.
basename(p, ext) ==
    IF Len(ext) > 0 /\ Len(p) > Len(ext)
       /\ SubSeq(p, Len(p) - Len(ext) + 1, Len(p)) = ext
    THEN SubSeq(p, 1, Len(p) - Len(ext))
    ELSE p

\* The decimal digits of a number, as string concatenation writes them.
DigitChars == <<"0", "1", "2", "3", "4", "5", "6", "7", "8", "9">>
RECURSIVE ToDigits(_)
ToDigits(n) ==
    IF n < 10 THEN <<DigitChars[n + 1]>>
    ELSE ToDigits(n \div 10) \o <<DigitChars[(n % 10) + 1]>>

\* storage.filename of multer: name + '-' + Date.now() + ext.
StoredName(originalname, now) ==
    LET ext == extname(originalname)
        name == basename(originalname, ext)
    IN  name \o <<"-">> \o ToDigits(now) \o ext

\* The original names of the uploads, and the names storage.filename gives
\* them at the first values of the clock.
OrigNames == {NameA, NameC}
UploadOrder ==
    <<<<"a", "-", "0", ".", "p", "d", "f">>, <<"a", "-", "1", ".", "p", "d", "f">>,
      <<"a", "-", "2", ".", "p", "d", "f">>, <<"c", "-", "0", ".", "t", "x", "t">>,
      <<"c", "-", "1", ".", "t", "x", "t">>, <<"c", "-", "2", ".", "t", "x", "t">>>>

NameOrder == PlacedOrder \o UploadOrder
Names == {NameOrder[i] : i \in 1..Len(NameOrder)}

\* The entries of a set of names in directory order (readdirSync, hits order).
SeqOf(S) == SelectSeq(NameOrder, LAMBDA n : n \in S)
SetOf(q) == {q[i] : i \in 1..Len(q)}

ExtPdf  == <<".", "p", "d", "f">>
ExtDoc  == <<".", "d", "o", "c">>
ExtDocx == <<".", "d", "o", "c", "x">>
ExtXls  == <<".", "x", "l", "s">>
ExtXlsx == <<".", "x", "l", "s", "x">>

MimeTable(ext, dflt) ==
    CASE ext = ExtPdf  -> "application/pdf"
      [] ext = ExtDoc  -> "application/msword"
      [] ext = ExtDocx -> "application/vnd.openxmlformats-officedocument.wordprocessingml.document"
      [] ext = ExtXls  -> "application/vnd.ms-excel"
      [] ext = ExtXlsx -> "application/vnd.openxmlformats-officedocument.spreadsheetml.sheet"
      [] OTHER -> dflt

\* getMimeType of the reconciler: null for an unsupported extension.
getMimeTypeAllTypes(filename) ==
    MimeTable(toLowerCase(extname(filename)), "application/octet-stream")
getMimeType(filename) == MimeTable(toLowerCase(extname(filename)), "null")

isSupportedFileType(filename) == getMimeType(filename) # "null"

\* getMimeType of the rebuild script and of index.js: octet-stream by default.
getMimeTypeReindex(filename) ==
    MimeTable(toLowerCase(extname(filename)), "application/octet-stream")

ExtractableMimes ==
    {"application/pdf", "application/msword",
     "application/vnd.openxmlformats-officedocument.wordprocessingml.document",
     "application/vnd.ms-excel",
     "application/vnd.openxmlformats-officedocument.spreadsheetml.sheet"}

\* The text a working extractor finds in the file of that name.
TextOf(filename) == <<"text", filename>>
NoText == <<>>          \* the empty string
NullText == <<"null">>  \* null or undefined

\* extractText: dispatches on the declared type; a failing format extractor
\* and an unknown type both give the empty string.  outcome is what the
\* format-specific extractor does on this call.
extractTextAlwaysEmpty(filename, mimetype, outcome) == NoText
extractText(filename, mimetype, outcome) ==
    IF mimetype \in ExtractableMimes
    THEN IF outcome = "ok" THEN TextOf(filename) ELSE NoText
    ELSE NoText

Outcomes == {"ok", "fail"}

\* ------------------------------------------------------------------- state
VARIABLES
    dirExists,  \* the uploads directory exists
    storage,    \* uploads directory: name -> "none" | "file" | "dir" | "broken"
    idxKind,    \* index "documents": "absent" | "mapped" | "dynamic"
    index,      \* the documents of the index: id -> stored body
    searchable, \* the documents a search sees: the index at its last refresh
    sync,       \* the reconciliation run: locals of syncFilesWithElasticsearch
    slog,       \* what the current reconciliation run has done so far
    prev,       \* what the reconciliation run before the current one did
    runs,       \* reconciliation runs started on demand
    envCount,   \* direct changes made to the storage directory
    spc,        \* the server process: position in index.js / startServer
    del,        \* the DELETE /api/files/:filename request being handled
    lres,       \* the last answer of GET /api/files without a query
    rx,         \* the rebuild script: locals of reindexAll
    rlog,       \* what the rebuild has done so far
    now,        \* the millisecond clock read by Date.now()
    up,         \* the POST /api/upload requests being handled, by slot
    bytes,      \* whose upload's bytes a stored file holds (0: nobody's)
    srch,       \* the last GET /api/search or GET /api/files?q= request
    ens,        \* the direct callers of initElasticsearch
    call,       \* the last direct call of an index client function
    bulk,       \* documents of the index beyond the named ones
    hl,         \* the page rendering one highlight fragment of a search result
    xt,         \* one call of extractText: its arguments and what came of it
    rk          \* one ranked search: the documents, their scores and the order

vars == <<dirExists, storage, idxKind, index, searchable, sync, slog, prev, runs, envCount,
          spc, del, lres, rx, rlog, now, up, bytes, srch, ens, call, bulk, hl, xt, rk>>

apiVars == <<now, up, bytes, srch, ens, call, bulk, hl, xt, rk>>

Kinds == {"none", "file", "dir", "broken"}

\* fs.statSync follows links: it throws for a missing entry and for a
\* dangling link, and for everything when the directory is gone.
Statable(dir, sto, n) == dir /\ sto[n] \in {"file", "dir"}
Stat(sto, n) == [isFile |-> sto[n] = "file", isDirectory |-> sto[n] = "dir",
                 size |-> Len(n), mtime |-> "mtime"]

\* fs.readdirSync: every entry, of any kind.
readdirSync(sto) == SeqOf({n \in Names : sto[n] # "none"})

\* The documents an upload and a backfill store for a file.
UploadedDoc(n) ==
    [filename |-> n, originalname |-> <<"user-supplied">>, content |-> TextOf(n),
     size |-> Len(n), uploadDate |-> "now"]
BackfilledDoc(n) ==
    [filename |-> n, originalname |-> n, content |-> TextOf(n),
     size |-> Len(n), uploadDate |-> "mtime"]

\* indexDocument without the default of line 80.
IndexBodyRaw(doc) ==
    [filename |-> doc.filename, originalname |-> doc.originalname,
     content |-> doc.content, size |-> doc.size, uploadDate |-> doc.uploadDate]
\* indexDocument: the body stored under id doc.filename.
IndexBody(doc) ==
    [filename |-> doc.filename, originalname |-> doc.originalname,
     content |-> IF doc.content \in {NullText, NoText} THEN NoText ELSE doc.content,
     size |-> doc.size,
     uploadDate |-> IF doc.uploadDate = "null" THEN "now" ELSE doc.uploadDate]

\* client.index on the service: creates or replaces the document; a missing
\* index is created on the fly, without the schema of initElasticsearch.
PutDoc(idx, body) ==
    [i \in DOMAIN idx \cup {body.filename} |->
        IF i = body.filename THEN body ELSE idx[i]]
KindAfterPut(kind) == IF kind = "absent" THEN "dynamic" ELSE kind

\* client.delete on the service.
RemoveDoc(idx, id) == [i \in DOMAIN idx \ {id} |-> idx[i]]

EmptyIndex == [i \in {} |-> 0]

\* getAllDocuments: the ids of the hits; an absent index (404) gives none.
ListAllSize == 10000
getAllDocuments(kind, idx) ==
    IF kind = "absent" THEN <<>>
    ELSE LET hits == SeqOf(DOMAIN idx)
         IN  IF Len(hits) <= ListAllSize THEN hits ELSE SubSeq(hits, 1, ListAllSize)

\* The number of hits a listing request of that size returns out of total.
HitCount(total, size) == IF total <= size THEN total ELSE size

\* String.prototype.trim on the blanks of a query.
RECURSIVE trimStart(_)
trimStart(q) == IF q # <<>> /\ Head(q) = " " THEN trimStart(Tail(q)) ELSE q
RECURSIVE trimEnd(_)
trimEnd(q) ==
    IF q # <<>> /\ q[Len(q)] = " " THEN trimEnd(SubSeq(q, 1, Len(q) - 1)) ELSE q
trim(q) == trimEnd(trimStart(q))

\* searchDocuments, lines 97-103 and 105-176: the request sent for a query.
SearchSize == 100
SearchRequestAlwaysRanked(query) ==
    [matchAll |-> FALSE, q |-> trim(query), highlight |-> TRUE, size |-> SearchSize]
SearchRequestOf(query) ==
    IF query = <<>> \/ trim(query) = <<>>
    THEN [matchAll |-> TRUE, q |-> <<>>, highlight |-> FALSE, size |-> SearchSize]
    ELSE [matchAll |-> FALSE, q |-> trim(query), highlight |-> TRUE,
          size |-> SearchSize]

\* The words of a file name, as the filename analyzer splits and lowercases
\* them (standard tokenizer, word delimiter, lowercase).
RECURSIVE WordsOf(_, _)
WordsOf(s, word) ==
    IF s = <<>> THEN (IF word = <<>> THEN {} ELSE {word})
    ELSE IF Head(s) \in {".", "-", " "}
    THEN (IF word = <<>> THEN {} ELSE {word}) \cup WordsOf(Tail(s), <<>>)
    ELSE WordsOf(Tail(s), word \o <<toLowerCaseChar(Head(s))>>)

\* The word every extracted text holds.
TextWord == <<"t", "e", "x", "t">>

\* The should clauses of lines 108-157 on one document: the query is a word
\* of the file name or a word of the content.
Matches(q, doc) ==
    \/ toLowerCase(q) \in WordsOf(doc.filename, <<>>)
    \/ doc.content # NoText /\ toLowerCase(q) = TextWord

\* The ids of the hits of a request on the documents a search sees.
HitsOf(request, seen) ==
    IF request.matchAll THEN DOMAIN seen
    ELSE {id \in DOMAIN seen : Matches(request.q, seen[id])}

\* filesInDirectory: regular, non-hidden entries of the uploads directory.
ListUploads(sto) ==
    SelectSeq(readdirSync(sto),
              LAMBDA n : Stat(sto, n).isFile /\ ~startsWithDot(n))

\* orphanedRecords: listed documents whose id is not in filesInDirectory.
OrphansOf(documentsInES, filesInDirectory) ==
    SelectSeq(documentsInES, LAMBDA id : id \notin SetOf(filesInDirectory))

\* newFiles: listed files that are not indexed and are of a supported type.
NewFilesOfNoIndexCheck(filesInDirectory, filenamesInES) ==
    SelectSeq(filesInDirectory, LAMBDA f : isSupportedFileType(f))
NewFilesOfNone(filesInDirectory, filenamesInES) == <<>>
NewFilesOf(filesInDirectory, filenamesInES) ==
    SelectSeq(filesInDirectory,
              LAMBDA f : f \notin filenamesInES /\ isSupportedFileType(f))

IdleSync ==
    [pc |-> "idle", owner |-> "none", filesInDirectory |-> <<>>,
     filenamesInES |-> {}, orphanedRecords |-> <<>>, orphanedLen |-> 0,
     newFiles |-> <<>>, content |-> NoText, indexedCount |-> 0, skippedCount |-> 0]

FreshLog ==
    [hadDir |-> TRUE, listed |-> FALSE, delIssued |-> {}, delFailed |-> {},
     deleted |-> {}, exOut |-> {}, upIssued |-> {}, upOk |-> {},
     errFiles |-> {}, failed |-> FALSE, cause |-> "none", stoSame |-> TRUE,
     idxQuiet |-> TRUE, fresh |-> TRUE, sto0 |-> [n \in Names |-> "none"],
     ids0 |-> {}]

NoPrev == [done |-> FALSE, hadDir |-> FALSE, failed |-> FALSE,
           stoSame |-> FALSE, idxQuiet |-> FALSE, fresh |-> FALSE,
           busy |-> FALSE]

\* Head of the file loop (lines 318-330): an unsupported type is counted and
\* skipped, a file that statSync rejects is logged and skipped; the loop
\* stops at the first file whose extraction is started.
RECURSIVE SyncAdvance(_, _, _, _)
SyncAdvance(q, dir, sto, skipped) ==
    IF q = <<>> THEN [q |-> <<>>, skipped |-> skipped, unstat |-> {}]
    ELSE LET f == Head(q)
         IN  IF getMimeType(f) = "null"
             THEN SyncAdvance(Tail(q), dir, sto, skipped + 1)
             ELSE IF ~Statable(dir, sto, f)
             THEN LET r == SyncAdvance(Tail(q), dir, sto, skipped)
                  IN  [r EXCEPT !.unstat = @ \cup {f}]
             ELSE [q |-> q, skipped |-> skipped, unstat |-> {}]

\* The run enters (or re-enters) the file loop with q left to handle.
SyncLoop(s, l, q) ==
    LET r == SyncAdvance(q, dirExists, storage, s.skippedCount)
    IN  /\ sync' = [s EXCEPT !.newFiles = r.q, !.skippedCount = r.skipped,
                             !.pc = IF r.q = <<>> THEN "done" ELSE "extract"]
        /\ slog' = [l EXCEPT !.errFiles = @ \cup r.unstat]

IdleDel == [pc |-> "idle", filename |-> <<>>, status |-> 0]
NoAnswer == [status |-> 0, files |-> {}]

IdleRx == [pc |-> "idle", files |-> <<>>, content |-> NoText]

\* A POST /api/upload request: req.file and the locals of the handler.
Slots == {1, 2}
IdleUp ==
    [pc |-> "idle", originalname |-> <<>>, mimetype |-> "none",
     filename |-> <<>>, content |-> NoText, status |-> 0, early |-> FALSE]

\* The answer of a search: who produced it, for which request, with which hits.
NoSearch ==
    [status |-> 0, route |-> "none", q |-> <<>>, source |-> "none",
     hits |-> {}, early |-> FALSE]

\* The callers of initElasticsearch and what they did to the index.
Callers == {1, 2}
IdleEns ==
    [pc |-> [c \in Callers |-> "idle"], created |-> 0, failed |-> FALSE,
     calls |-> 0]

\* A call of indexDocument, deleteDocument, searchDocuments or getAllDocuments.
NoDoc ==
    [filename |-> <<>>, originalname |-> <<>>, content |-> NoText, size |-> 0,
     uploadDate |-> "null"]
NoCall ==
    [op |-> "none", arg |-> <<>>, doc |-> NoDoc, out |-> "none",
     raised |-> FALSE, before |-> EmptyIndex, seen |-> EmptyIndex,
     matchAll |-> FALSE, highlight |-> FALSE, count |-> 0, n |-> 0]

\* The component before it renders a fragment: which of the two
\* FileUploadComponent sources of the file is built, the search box, the
\* fragment received and the markup produced.
IdleHl == [pc |-> "idle", build |-> 1, searchTerm |-> <<>>, html |-> <<>>, out |-> <<>>]

\* extractText before it is called: the arguments, the format extractor the
\* switch dispatched to, and how the call ended.
IdleXt ==
    [pc |-> "idle", filePath |-> <<>>, mimetype |-> "none", outcome |-> "none",
     invoked |-> "none", value |-> NullText]

\* A search before it is sent: the content words of the two documents of the
\* index, the similarity the index service computes for each, the score of
\* each and the hits in the order returned.
IdleRk ==
    [pc |-> "idle", content |-> <<<<>>, <<>>>>, sim |-> <<1, 1>>,
     score |-> <<0, 0>>, hits |-> <<>>]

FreshRlog ==
    [failed |-> FALSE, cause |-> "none", stoSame |-> TRUE, idxQuiet |-> TRUE,
     exFailed |-> FALSE, listed |-> FALSE, upIssued |-> {}]

\* ------------------------------------------------------------------- Init
StorageWorlds ==
    {[n \in Names |-> IF n \in PlacedNames THEN w[n] ELSE "none"] :
        w \in {w \in [PlacedNames -> Kinds] :
                  Cardinality({n \in PlacedNames : w[n] # "none"}) <= MaxStored}}

IndexWorlds ==
    UNION {[D -> {"up", "bf"}] : D \in {D \in SUBSET PlacedNames : Cardinality(D) <= MaxDocs}}

\* Everything but the page: the installation before any process has started.
InitWorld ==
    /\ dirExists \in BOOLEAN
    /\ storage \in StorageWorlds
    /\ dirExists = FALSE => storage = [n \in Names |-> "none"]
    /\ idxKind \in {"absent", "mapped"}
    /\ \E w \in IndexWorlds :
          index = [i \in DOMAIN w |->
                      IF w[i] = "up" THEN UploadedDoc(i) ELSE BackfilledDoc(i)]
    /\ idxKind = "absent" => index = EmptyIndex
    /\ searchable = index
    /\ sync = IdleSync
    /\ slog = FreshLog
    /\ prev = NoPrev
    /\ runs = 0
    /\ envCount = 0
    /\ spc = "down"
    /\ del = IdleDel
    /\ lres = NoAnswer
    /\ rx = IdleRx
    /\ rlog = FreshRlog
    /\ now = 0
    /\ up = [s \in Slots |-> IdleUp]
    /\ bytes = [n \in Names |-> 0]
    /\ srch = NoSearch
    /\ ens = IdleEns
    /\ call = NoCall
    /\ bulk = 0

Init ==
    /\ InitWorld
    /\ hl = IdleHl
    /\ xt = IdleXt
    /\ rk = IdleRk

\* ------------------------------------------------- the storage environment
TouchSto(l) == [l EXCEPT !.stoSame = FALSE]
TouchIdx(l) == [l EXCEPT !.idxQuiet = FALSE]

serverVars == <<spc, del, lres>>
rxVars == <<rx, rlog>>

\* The index service refreshes: the writes made so far become visible to
\* searches (client.index and client.delete are called without refresh).
Refresh ==
    /\ searchable # index
    /\ searchable' = index
    /\ UNCHANGED <<dirExists, storage, idxKind, index, sync, slog, prev, runs,
                   envCount, serverVars, rxVars>>
    /\ UNCHANGED apiVars

\* Somebody places an entry directly into the uploads directory.
EnvPut ==
    /\ envCount < MaxEnv
    /\ dirExists
    /\ \E n \in PlacedNames, k \in Kinds \ {"none"} :
          /\ storage[n] = "none"
          /\ storage' = [storage EXCEPT ![n] = k]
    /\ envCount' = envCount + 1
    /\ slog' = TouchSto(slog)
    /\ rlog' = TouchSto(rlog)
    /\ UNCHANGED <<dirExists, idxKind, index, searchable, sync, prev, runs, serverVars, rx>>
    /\ UNCHANGED apiVars

\* Somebody removes an entry directly from the uploads directory.
EnvRemove ==
    /\ envCount < MaxEnv
    /\ \E n \in Names :
          /\ storage[n] # "none"
          /\ storage' = [storage EXCEPT ![n] = "none"]
    /\ envCount' = envCount + 1
    /\ slog' = TouchSto(slog)
    /\ rlog' = TouchSto(rlog)
    /\ UNCHANGED <<dirExists, idxKind, index, searchable, sync, prev, runs, serverVars, rx>>
    /\ UNCHANGED apiVars

\* ------------------------------------- syncFilesWithElasticsearch, by await
SyncActive == sync.pc \in {"getAll", "orphans", "extract", "index"}

\* Lines 265-286: the directory check and the storage listing.
SyncBegin(owner) ==
    /\ prev' = [done |-> sync.pc = "done", hadDir |-> slog.hadDir,
                failed |-> slog.failed, stoSame |-> slog.stoSame,
                idxQuiet |-> slog.idxQuiet, fresh |-> slog.fresh,
                busy |-> slog.delIssued # {} \/ slog.upIssued # {}]
    /\ IF ~dirExists
       THEN /\ dirExists' = TRUE
            /\ sync' = [IdleSync EXCEPT !.pc = "done", !.owner = owner]
            /\ slog' = [FreshLog EXCEPT !.hadDir = FALSE, !.sto0 = storage,
                                        !.ids0 = DOMAIN index]
       ELSE /\ dirExists' = dirExists
            /\ IF \E n \in Names : storage[n] = "broken"
               THEN /\ sync' = [IdleSync EXCEPT !.pc = "threw", !.owner = owner]
                    /\ slog' = [FreshLog EXCEPT !.cause = "stat", !.sto0 = storage,
                                                !.ids0 = DOMAIN index]
               ELSE /\ sync' = [IdleSync EXCEPT !.pc = "getAll", !.owner = owner,
                                   !.filesInDirectory = ListUploads(storage)]
                    /\ slog' = [FreshLog EXCEPT !.sto0 = storage,
                                                !.ids0 = DOMAIN index]

\* The reconciliation is run on demand (sync.js).
SyncOnDemand ==
    /\ sync.pc \in {"idle", "done", "threw"}
    /\ spc # "sync"
    /\ runs < MaxRuns
    /\ runs' = runs + 1
    /\ SyncBegin("demand")
    /\ UNCHANGED <<storage, idxKind, index, searchable, envCount, serverVars, rxVars>>
    /\ UNCHANGED apiVars

\* Lines 288-312: the index listing, then orphans and new files are computed.
SyncGetAll ==
    /\ sync.pc = "getAll"
    /\ \E out \in Outcomes :
          IF out = "fail"
          THEN /\ sync' = [sync EXCEPT !.pc = "threw"]
               /\ slog' = [slog EXCEPT !.failed = TRUE, !.cause = "getAll"]
          ELSE LET documentsInES == getAllDocuments(idxKind, searchable)
                   ids  == SetOf(documentsInES)
                   orph == OrphansOf(documentsInES, sync.filesInDirectory)
                   new  == NewFilesOf(sync.filesInDirectory, ids)
                   s1   == [sync EXCEPT !.filenamesInES = ids,
                                        !.orphanedRecords = orph,
                                        !.orphanedLen = Len(orph),
                                        !.newFiles = new]
                   l1   == [slog EXCEPT !.listed = TRUE, !.ids0 = ids,
                                        !.fresh = (ids = DOMAIN index)]
               IN  IF orph # <<>>
                   THEN /\ sync' = [s1 EXCEPT !.pc = "orphans"]
                        /\ slog' = l1
                   ELSE SyncLoop(s1, l1, new)
    /\ UNCHANGED <<dirExists, storage, idxKind, index, searchable, prev, runs, envCount,
                   serverVars, rxVars>>
    /\ UNCHANGED apiVars

\* Lines 299-303 with deleteDocument (185-197): one orphan is deleted; every
\* error of the delete call is swallowed.
SyncDeleteOrphan ==
    /\ sync.pc = "orphans"
    /\ LET id == Head(sync.orphanedRecords)
           rest == Tail(sync.orphanedRecords)
       IN  \E out \in Outcomes :
              LET hit == out = "ok" /\ idxKind # "absent" /\ id \in DOMAIN index
                  s1 == [sync EXCEPT !.orphanedRecords = rest]
                  l1 == [slog EXCEPT !.delIssued = @ \cup {id},
                                     !.delFailed = IF out = "fail" THEN @ \cup {id} ELSE @,
                                     !.deleted = IF hit THEN @ \cup {id} ELSE @,
                                     !.failed = @ \/ out = "fail"]
              IN  /\ index' = IF hit THEN RemoveDoc(index, id) ELSE index
                  /\ searchable' = searchable
                  /\ rlog' = IF hit THEN TouchIdx(rlog) ELSE rlog
                  /\ IF rest # <<>>
                     THEN sync' = s1 /\ slog' = l1
                     ELSE SyncLoop(s1, l1, sync.newFiles)
    /\ UNCHANGED <<dirExists, storage, idxKind, prev, runs, envCount,
                   serverVars, rx>>
    /\ UNCHANGED apiVars

\* Line 333: extractText of the current file returns.
SyncExtractDone ==
    /\ sync.pc = "extract"
    /\ LET f == Head(sync.newFiles)
       IN  \E out \in Outcomes :
              LET content == extractText(f, getMimeType(f), out)
              IN  /\ sync' = [sync EXCEPT !.pc = "index", !.content = content]
                  /\ slog' = [slog EXCEPT !.exOut = @ \cup {<<f, out>>}]
    /\ UNCHANGED <<dirExists, storage, idxKind, index, searchable, prev, runs, envCount,
                   serverVars, rxVars>>
    /\ UNCHANGED apiVars

\* extractTextFromDoc (31-42): the promise settles only in textract's
\* callback; when textract never calls back, the await never returns.
SyncExtractHangs ==
    /\ sync.pc = "extract"
    /\ getMimeType(Head(sync.newFiles)) = "application/msword"
    /\ sync' = [sync EXCEPT !.pc = "hung"]
    /\ UNCHANGED <<dirExists, storage, idxKind, index, searchable, slog, prev, runs,
                   envCount, serverVars, rxVars>>
    /\ UNCHANGED apiVars

\* Lines 335-349: indexDocument of the current file returns or throws (the
\* throw is caught per file), then the loop goes on to the next file.
SyncIndex ==
    /\ sync.pc = "index"
    /\ LET f == Head(sync.newFiles)
           body == IndexBody([filename |-> f, originalname |-> f,
                              content |-> sync.content,
                              size |-> Stat(storage, f).size,
                              uploadDate |-> Stat(storage, f).mtime])
       IN  \E out \in Outcomes :
              LET ok == out = "ok"
                  s1 == [sync EXCEPT !.indexedCount = IF ok THEN @ + 1 ELSE @,
                                     !.content = NoText]
                  l1 == [slog EXCEPT !.upIssued = @ \cup {<<f, sync.content>>},
                                     !.upOk = IF ok THEN @ \cup {f} ELSE @,
                                     !.errFiles = IF ok THEN @ ELSE @ \cup {f},
                                     !.failed = @ \/ ~ok]
              IN  /\ index' = IF ok THEN PutDoc(index, body) ELSE index
                  /\ searchable' = searchable
                  /\ idxKind' = IF ok THEN KindAfterPut(idxKind) ELSE idxKind
                  /\ rlog' = IF ok THEN TouchIdx(rlog) ELSE rlog
                  /\ SyncLoop(s1, l1, Tail(sync.newFiles))
    /\ UNCHANGED <<dirExists, storage, prev, runs, envCount, serverVars, rx>>
    /\ UNCHANGED apiVars

\* ------------------------------------------------- index.js: startServer
\* Lines 37-41 and 238-241: the module creates the uploads directory, then
\* startServer awaits checkConnection.
ServerStart ==
    /\ spc = "down"
    /\ spc' = "check"
    /\ dirExists' = TRUE
    /\ UNCHANGED <<storage, idxKind, index, searchable, sync, slog, prev, runs, envCount,
                   del, lres, rxVars>>
    /\ UNCHANGED apiVars

\* Lines 241-251: without a connection the server listens right away.
ServerCheckConnection ==
    /\ spc = "check"
    /\ \E out \in Outcomes :
          spc' = IF out = "ok" THEN "initExists" ELSE "listening"
    /\ UNCHANGED <<dirExists, storage, idxKind, index, searchable, sync, slog, prev, runs,
                   envCount, del, lres, rxVars>>
    /\ UNCHANGED apiVars

\* initElasticsearch, line 15: indices.exists; when the index exists the
\* startup reconciliation is entered at once (line 248).
ServerInitExists ==
    /\ spc = "initExists"
    /\ ~SyncActive
    /\ \E out \in Outcomes :
          IF out = "fail"
          THEN /\ spc' = "exited"
               /\ UNCHANGED <<dirExists, sync, slog, prev>>
          ELSE IF idxKind # "absent"
          THEN /\ spc' = "sync"
               /\ SyncBegin("server")
          ELSE /\ spc' = "initCreate"
               /\ UNCHANGED <<dirExists, sync, slog, prev>>
    /\ UNCHANGED <<storage, idxKind, index, searchable, runs, envCount, del, lres, rxVars>>
    /\ UNCHANGED apiVars

\* initElasticsearch, lines 17-61: indices.create; it fails when the index
\* was created in the meantime.
ServerInitCreate ==
    /\ spc = "initCreate"
    /\ ~SyncActive
    /\ \E out \in Outcomes :
          IF out = "fail" \/ idxKind # "absent"
          THEN /\ spc' = "exited"
               /\ UNCHANGED <<dirExists, idxKind, sync, slog, prev, rlog>>
          ELSE /\ spc' = "sync"
               /\ idxKind' = "mapped"
               /\ rlog' = TouchIdx(rlog)
               /\ SyncBegin("server")
    /\ UNCHANGED <<storage, index, searchable, runs, envCount, del, lres, rx>>
    /\ UNCHANGED apiVars

\* startServer if it called app.listen without awaiting the reconciliation.
ServerListenEarly ==
    /\ spc = "sync"
    /\ sync.owner = "server"
    /\ spc' = "listening"
    /\ UNCHANGED <<dirExists, storage, idxKind, index, searchable, sync, slog, prev, runs,
                   envCount, del, lres, rxVars>>
    /\ UNCHANGED apiVars

\* Lines 253-257: the reconciliation returned, the server listens.
ServerListen ==
    /\ spc = "sync"
    /\ sync.owner = "server"
    /\ sync.pc = "done"
    /\ spc' = "listening"
    /\ UNCHANGED <<dirExists, storage, idxKind, index, searchable, sync, slog, prev, runs,
                   envCount, del, lres, rxVars>>
    /\ UNCHANGED apiVars

\* Lines 258-261: the reconciliation threw, the process exits with 1.
ServerExit ==
    /\ spc = "sync"
    /\ sync.owner = "server"
    /\ sync.pc = "threw"
    /\ spc' = "exited"
    /\ UNCHANGED <<dirExists, storage, idxKind, index, searchable, sync, slog, prev, runs,
                   envCount, del, lres, rxVars>>
    /\ UNCHANGED apiVars

\* ----------------------------------------- DELETE /api/files/:filename
\* Lines 199-211: existsSync, then unlinkSync, then deleteDocument is awaited.
DeleteRequest ==
    /\ spc = "listening"
    /\ del.pc = "idle"
    /\ \E n \in PlacedNames :
          IF ~(dirExists /\ storage[n] \in {"file", "dir"})
          THEN /\ del' = [pc |-> "responded", filename |-> n, status |-> 404]
               /\ UNCHANGED <<storage, slog, rlog>>
          ELSE IF storage[n] = "dir"
          THEN /\ del' = [pc |-> "responded", filename |-> n, status |-> 500]
               /\ UNCHANGED <<storage, slog, rlog>>
          ELSE /\ del' = [pc |-> "esDelete", filename |-> n, status |-> 0]
               /\ storage' = [storage EXCEPT ![n] = "none"]
               /\ slog' = TouchSto(slog)
               /\ rlog' = TouchSto(rlog)
    /\ UNCHANGED <<dirExists, idxKind, index, searchable, sync, prev, runs, envCount,
                   spc, lres, rx>>
    /\ UNCHANGED apiVars

\* The handler if a delete that removed nothing were an error.
DeleteFromIndexStrict ==
    /\ del.pc = "esDelete"
    /\ \E out \in Outcomes :
          LET hit == out = "ok" /\ idxKind # "absent" /\ del.filename \in DOMAIN index
          IN  /\ index' = IF hit THEN RemoveDoc(index, del.filename) ELSE index
              /\ searchable' = searchable
              /\ slog' = IF hit THEN TouchIdx(slog) ELSE slog
              /\ rlog' = IF hit THEN TouchIdx(rlog) ELSE rlog
              /\ del' = [del EXCEPT !.pc = "responded",
                                    !.status = IF hit THEN 200 ELSE 500]
    /\ UNCHANGED <<dirExists, storage, idxKind, sync, prev, runs, envCount,
                   spc, lres, rx>>
    /\ UNCHANGED apiVars

\* Lines 213-220 with deleteDocument (185-197): no error of the delete call
\* reaches the handler, which answers with success.
DeleteFromIndex ==
    /\ del.pc = "esDelete"
    /\ \E out \in Outcomes :
          LET hit == out = "ok" /\ idxKind # "absent" /\ del.filename \in DOMAIN index
          IN  /\ index' = IF hit THEN RemoveDoc(index, del.filename) ELSE index
              /\ searchable' = searchable
              /\ slog' = IF hit THEN TouchIdx(slog) ELSE slog
              /\ rlog' = IF hit THEN TouchIdx(rlog) ELSE rlog
    /\ del' = [del EXCEPT !.pc = "responded", !.status = 200]
    /\ UNCHANGED <<dirExists, storage, idxKind, sync, prev, runs, envCount,
                   spc, lres, rx>>
    /\ UNCHANGED apiVars

\* ---------------------------------------- GET /api/files without a query
\* Lines 177-195: readdirSync, then statSync of every entry; any throw
\* turns the whole answer into a 500.
ListFiles ==
    /\ spc = "listening"
    /\ lres.status = 0
    /\ lres' = IF dirExists /\ \A n \in Names : storage[n] # "broken"
               THEN [status |-> 200, files |-> SetOf(readdirSync(storage))]
               ELSE [status |-> 500, files |-> {}]
    /\ UNCHANGED <<dirExists, storage, idxKind, index, searchable, sync, slog, prev, runs,
                   envCount, spc, del, rxVars>>
    /\ UNCHANGED apiVars

\* ------------------------------------------------ reindexAll, by await
RxExit(cause) ==
    /\ rx' = [rx EXCEPT !.pc = "exit1"]
    /\ rlog' = [rlog EXCEPT !.cause = cause]

\* Lines 192-198: statSync outside the per-file try, then directories and
\* hidden entries are skipped; stops at the first file to extract.
RECURSIVE ReindexAdvance(_, _, _)
ReindexAdvance(q, dir, sto) ==
    IF q = <<>> THEN [q |-> <<>>, threw |-> FALSE]
    ELSE LET f == Head(q)
         IN  IF ~Statable(dir, sto, f) THEN [q |-> q, threw |-> TRUE]
             ELSE IF Stat(sto, f).isDirectory \/ startsWithDot(f)
             THEN ReindexAdvance(Tail(q), dir, sto)
             ELSE [q |-> q, threw |-> FALSE]

RxLoop(r, l, q) ==
    LET a == ReindexAdvance(q, dirExists, storage)
    IN  /\ rx' = [r EXCEPT !.files = a.q,
                           !.pc = IF a.threw THEN "exit1"
                                  ELSE IF a.q = <<>> THEN "exit0" ELSE "extract"]
        /\ rlog' = [l EXCEPT !.cause = IF a.threw THEN "stat" ELSE @]

\* Lines 183-190: the uploads directory must exist; every entry is listed.
RxList(l) ==
    IF ~dirExists
    THEN /\ rx' = [rx EXCEPT !.pc = "exit1"]
         /\ rlog' = [l EXCEPT !.cause = "nodir"]
    ELSE RxLoop(rx, [l EXCEPT !.listed = TRUE, !.stoSame = TRUE], readdirSync(storage))

ReindexStart ==
    /\ rx.pc = "idle"
    /\ rx' = [rx EXCEPT !.pc = "check"]
    /\ rlog' = FreshRlog
    /\ UNCHANGED <<dirExists, storage, idxKind, index, searchable, sync, slog, prev, runs,
                   envCount, serverVars>>
    /\ UNCHANGED apiVars

\* Lines 168-173: checkConnection.
ReindexCheck ==
    /\ rx.pc = "check"
    /\ \E out \in Outcomes :
          IF out = "ok"
          THEN rx' = [rx EXCEPT !.pc = "dropExists"] /\ rlog' = rlog
          ELSE RxExit("connect")
    /\ UNCHANGED <<dirExists, storage, idxKind, index, searchable, sync, slog, prev, runs,
                   envCount, serverVars>>
    /\ UNCHANGED apiVars

\* deleteIndex, line 202: indices.exists.
ReindexDropExists ==
    /\ rx.pc = "dropExists"
    /\ \E out \in Outcomes :
          IF out = "ok"
          THEN /\ rx' = [rx EXCEPT !.pc = IF idxKind # "absent"
                                          THEN "dropDelete" ELSE "initExists"]
               /\ rlog' = rlog
          ELSE RxExit("drop")
    /\ UNCHANGED <<dirExists, storage, idxKind, index, searchable, sync, slog, prev, runs,
                   envCount, serverVars>>
    /\ UNCHANGED apiVars

\* deleteIndex, line 203: indices.delete.
ReindexDropDelete ==
    /\ rx.pc = "dropDelete"
    /\ \E out \in Outcomes :
          IF out = "ok" /\ idxKind # "absent"
          THEN /\ rx' = [rx EXCEPT !.pc = "initExists"]
               /\ rlog' = rlog
               /\ idxKind' = "absent"
               /\ index' = EmptyIndex
               /\ searchable' = EmptyIndex
               /\ slog' = TouchIdx(slog)
          ELSE /\ RxExit("drop")
               /\ UNCHANGED <<idxKind, index, searchable, slog>>
    /\ UNCHANGED <<dirExists, storage, sync, prev, runs, envCount, serverVars>>
    /\ UNCHANGED apiVars

\* initElasticsearch, line 15, then the listing when the index exists.
ReindexInitExists ==
    /\ rx.pc = "initExists"
    /\ \E out \in Outcomes :
          IF out = "fail" THEN RxExit("create")
          ELSE IF idxKind # "absent" THEN RxList(rlog)
          ELSE rx' = [rx EXCEPT !.pc = "initCreate"] /\ rlog' = rlog
    /\ UNCHANGED <<dirExists, storage, idxKind, index, searchable, sync, slog, prev, runs,
                   envCount, serverVars>>
    /\ UNCHANGED apiVars

\* initElasticsearch, lines 17-61, then the listing.
ReindexInitCreate ==
    /\ rx.pc = "initCreate"
    /\ \E out \in Outcomes :
          IF out = "fail" \/ idxKind # "absent"
          THEN /\ RxExit("create")
               /\ UNCHANGED <<idxKind, slog>>
          ELSE /\ idxKind' = "mapped"
               /\ slog' = TouchIdx(slog)
               /\ RxList(rlog)
    /\ UNCHANGED <<dirExists, storage, index, searchable, sync, prev, runs, envCount,
                   serverVars>>
    /\ UNCHANGED apiVars

\* Line 204: extractText of the current file returns.
ReindexExtractDone ==
    /\ rx.pc = "extract"
    /\ LET f == Head(rx.files)
           mimetype == getMimeTypeReindex(f)
       IN  \E out \in Outcomes :
              /\ rx' = [rx EXCEPT !.pc = "index",
                                  !.content = extractText(f, mimetype, out)]
              /\ rlog' = [rlog EXCEPT !.exFailed = @ \/ out = "fail"]
    /\ UNCHANGED <<dirExists, storage, idxKind, index, searchable, sync, slog, prev, runs,
                   envCount, serverVars>>
    /\ UNCHANGED apiVars

ReindexExtractHangs ==
    /\ rx.pc = "extract"
    /\ getMimeTypeReindex(Head(rx.files)) = "application/msword"
    /\ rx' = [rx EXCEPT !.pc = "hung"]
    /\ UNCHANGED <<dirExists, storage, idxKind, index, searchable, sync, slog, prev, runs,
                   envCount, serverVars, rlog>>
    /\ UNCHANGED apiVars

\* Lines 206-221: indexDocument returns or throws (caught per file), then
\* the loop goes on.
ReindexIndex ==
    /\ rx.pc = "index"
    /\ LET f == Head(rx.files)
           body == IndexBody([filename |-> f, originalname |-> f,
                              content |-> rx.content,
                              size |-> Stat(storage, f).size,
                              uploadDate |-> Stat(storage, f).mtime])
       IN  \E out \in Outcomes :
              LET ok == out = "ok"
                  l1 == [rlog EXCEPT !.upIssued = @ \cup {f},
                                     !.failed = @ \/ ~ok]
              IN  /\ index' = IF ok THEN PutDoc(index, body) ELSE index
                  /\ searchable' = searchable
                  /\ idxKind' = IF ok THEN KindAfterPut(idxKind) ELSE idxKind
                  /\ slog' = IF ok THEN TouchIdx(slog) ELSE slog
                  /\ RxLoop([rx EXCEPT !.content = NoText], l1, Tail(rx.files))
    /\ UNCHANGED <<dirExists, storage, sync, prev, runs, envCount, serverVars>>
    /\ UNCHANGED apiVars

\* ------------------------------------------------------------------- Next
\* The reconciliation run on demand and the storage environment.
Next ==
    \/ EnvPut
    \/ EnvRemove
    \/ Refresh
    \/ SyncOnDemand
    \/ SyncGetAll
    \/ SyncDeleteOrphan
    \/ SyncExtractDone
    \/ SyncExtractHangs
    \/ SyncIndex

Spec == Init /\ [][Next]_vars

\* The server process with its startup reconciliation and its handlers, and
\* the storage environment.
ServerNext ==
    \/ EnvPut
    \/ EnvRemove
    \/ Refresh
    \/ ServerStart
    \/ ServerCheckConnection
    \/ ServerInitExists
    \/ ServerInitCreate
    \/ SyncGetAll
    \/ SyncDeleteOrphan
    \/ SyncExtractDone
    \/ SyncExtractHangs
    \/ SyncIndex
    \/ ServerListen
    \/ ServerExit
    \/ DeleteRequest
    \/ DeleteFromIndex
    \/ ListFiles

ServerSpec == Init /\ [][ServerNext]_vars

\* The rebuild script and the storage environment.
RebuildNext ==
    \/ EnvPut
    \/ EnvRemove
    \/ Refresh
    \/ ReindexStart
    \/ ReindexCheck
    \/ ReindexDropExists
    \/ ReindexDropDelete
    \/ ReindexInitExists
    \/ ReindexInitCreate
    \/ ReindexExtractDone
    \/ ReindexExtractHangs
    \/ ReindexIndex

RebuildSpec == Init /\ [][RebuildNext]_vars

\* The reconciliation alone; every await whose call returns is resumed.
SyncNext ==
    \/ Refresh
    \/ SyncOnDemand
    \/ SyncGetAll
    \/ SyncDeleteOrphan
    \/ SyncExtractDone
    \/ SyncExtractHangs
    \/ SyncIndex

SyncProgress ==
    SyncGetAll \/ SyncDeleteOrphan \/ SyncExtractDone \/ SyncIndex

FairSpec == Init /\ [][SyncNext]_vars /\ WF_vars(SyncProgress)

\* ------------------------------------- the index client, called directly
\* The functions exported by elasticsearch.js, called by any caller on any
\* index: two tasks call initElasticsearch, and indexDocument, deleteDocument,
\* searchDocuments and getAllDocuments are called one at a time.
clientFrame ==
    <<dirExists, storage, sync, slog, prev, runs, envCount, spc, del, lres, rx,
      rlog, now, up, bytes, srch, hl, xt, rk>>

BulkSizes == {0, SearchSize + 1, ListAllSize + 1}

ClientIds == {NameA, NameB}

ClientDocs ==
    {[filename |-> n,
      originalname |-> IF d = "null" THEN <<"user-supplied">> ELSE n,
      content |-> IF c = "text" THEN TextOf(n) ELSE IF c = "null" THEN NullText
                  ELSE NoText,
      size |-> Len(n), uploadDate |-> d] :
        n \in ClientIds, c \in {"null", "empty", "text"}, d \in {"null", "mtime"}}

ClientQueries == {<<>>, <<" ">>, <<" ", "a", " ">>, TextWord}

ClientInit ==
    /\ dirExists = TRUE
    /\ storage = [n \in Names |-> "none"]
    /\ idxKind \in {"absent", "mapped"}
    /\ \E w \in IndexWorlds :
          index = [i \in DOMAIN w |->
                      IF w[i] = "up" THEN UploadedDoc(i) ELSE BackfilledDoc(i)]
    /\ idxKind = "absent" => index = EmptyIndex
    /\ searchable = index
    /\ bulk \in BulkSizes
    /\ idxKind = "absent" => bulk = 0
    /\ sync = IdleSync
    /\ slog = FreshLog
    /\ prev = NoPrev
    /\ runs = 0
    /\ envCount = 0
    /\ spc = "down"
    /\ del = IdleDel
    /\ lres = NoAnswer
    /\ rx = IdleRx
    /\ rlog = FreshRlog
    /\ now = 0
    /\ up = [s \in Slots |-> IdleUp]
    /\ bytes = [n \in Names |-> 0]
    /\ srch = NoSearch
    /\ ens = IdleEns
    /\ call = NoCall
    /\ hl = IdleHl
    /\ xt = IdleXt
    /\ rk = IdleRk

\* Line 13: a task calls initElasticsearch.
EnsureCall(c) ==
    /\ ens.pc[c] \in {"idle", "done", "threw"}
    /\ ens.calls + call.n < MaxCalls
    /\ ens' = [ens EXCEPT !.pc[c] = "exists", !.calls = @ + 1]
    /\ UNCHANGED <<idxKind, index, searchable, call, bulk>>
    /\ UNCHANGED clientFrame

\* Lines 15-17 and 62-68: client.indices.exists answers; an existing index
\* ends the call, a failure is rethrown.
EnsureExists(c) ==
    /\ ens.pc[c] = "exists"
    /\ \E out \in Outcomes :
          ens' = IF out = "fail"
                 THEN [ens EXCEPT !.pc[c] = "threw", !.failed = TRUE]
                 ELSE IF idxKind # "absent"
                      THEN [ens EXCEPT !.pc[c] = "done"]
                      ELSE [ens EXCEPT !.pc[c] = "create"]
    /\ UNCHANGED <<idxKind, index, searchable, call, bulk>>
    /\ UNCHANGED clientFrame

\* Lines 18-61 and 65-68: client.indices.create answers; the service refuses
\* to create an index that exists by now, and every error is rethrown.
EnsureCreate(c) ==
    /\ ens.pc[c] = "create"
    /\ \E out \in Outcomes :
          IF out = "fail"
          THEN /\ ens' = [ens EXCEPT !.pc[c] = "threw", !.failed = TRUE]
               /\ UNCHANGED idxKind
          ELSE IF idxKind # "absent"
               THEN /\ ens' = [ens EXCEPT !.pc[c] = "threw"]
                    /\ UNCHANGED idxKind
               ELSE /\ ens' = [ens EXCEPT !.pc[c] = "done", !.created = @ + 1]
                    /\ idxKind' = "mapped"
    /\ UNCHANGED <<index, searchable, call, bulk>>
    /\ UNCHANGED clientFrame

\* indexDocument(doc), lines 72-92.
ClientIndex ==
    /\ ens.calls + call.n < MaxCalls
    /\ \E doc \in ClientDocs, out \in Outcomes :
          /\ call' = [NoCall EXCEPT !.op = "index", !.arg = doc.filename,
                         !.doc = doc, !.out = out, !.raised = (out = "fail"),
                         !.before = index, !.n = call.n + 1]
          /\ IF out = "ok"
             THEN /\ index' = PutDoc(index, IndexBody(doc))
                  /\ idxKind' = KindAfterPut(idxKind)
             ELSE UNCHANGED <<index, idxKind>>
    /\ UNCHANGED <<searchable, ens, bulk>>
    /\ UNCHANGED clientFrame

\* deleteDocument(filename), lines 185-197: no error leaves the function.
ClientDelete ==
    /\ ens.calls + call.n < MaxCalls
    /\ \E id \in ClientIds, out \in Outcomes :
          LET hit == out = "ok" /\ idxKind # "absent" /\ id \in DOMAIN index
          IN  /\ call' = [NoCall EXCEPT !.op = "delete", !.arg = id, !.out = out,
                             !.raised = FALSE, !.before = index,
                             !.n = call.n + 1]
              /\ index' = IF hit THEN RemoveDoc(index, id) ELSE index
    /\ UNCHANGED <<idxKind, searchable, ens, bulk>>
    /\ UNCHANGED clientFrame

\* searchDocuments(query), lines 95-182: a missing index (404) and every
\* other error are rethrown.
ClientSearch ==
    /\ ens.calls + call.n < MaxCalls
    /\ \E query \in ClientQueries, out \in Outcomes :
          LET request == SearchRequestOf(query)
              raised == out = "fail" \/ idxKind = "absent"
              found == Cardinality(HitsOf(request, searchable))
                       + (IF request.matchAll THEN bulk ELSE 0)
          IN  call' = [NoCall EXCEPT !.op = "search", !.arg = query, !.out = out,
                          !.raised = raised, !.before = index,
                          !.seen = searchable,
                          !.matchAll = request.matchAll,
                          !.highlight = request.highlight,
                          !.count = IF raised THEN 0
                                    ELSE HitCount(found, request.size),
                          !.n = call.n + 1]
    /\ UNCHANGED <<idxKind, index, searchable, ens, bulk>>
    /\ UNCHANGED clientFrame

\* getAllDocuments(), lines 215-232: a missing index gives no documents,
\* every other error is rethrown.
ClientGetAll ==
    /\ ens.calls + call.n < MaxCalls
    /\ \E out \in Outcomes :
          LET found == Cardinality(DOMAIN searchable) + bulk
          IN  call' = [NoCall EXCEPT !.op = "getAll", !.out = out,
                          !.raised = (out = "fail"), !.before = index,
                          !.seen = searchable, !.matchAll = TRUE,
                          !.count = IF out = "fail" \/ idxKind = "absent" THEN 0
                                    ELSE HitCount(found, ListAllSize),
                          !.n = call.n + 1]
    /\ UNCHANGED <<idxKind, index, searchable, ens, bulk>>
    /\ UNCHANGED clientFrame

ClientNext ==
    \/ \E c \in Callers : EnsureCall(c)
    \/ \E c \in Callers : EnsureExists(c)
    \/ \E c \in Callers : EnsureCreate(c)
    \/ ClientIndex
    \/ ClientDelete
    \/ ClientSearch
    \/ ClientGetAll
    \/ Refresh

ClientSpec == ClientInit /\ [][ClientNext]_vars


\* ------------------------------------------ the requests of the running server
\* POST /api/upload, GET /api/search and GET /api/files of a server that went
\* through startServer.
apiFrame ==
    <<dirExists, sync, slog, prev, runs, envCount, spc, del, lres, rx, rlog,
      ens, call, bulk, hl, xt, rk>>

\* Lines 57-63.
allowedMimeTypes ==
    {"application/pdf", "application/msword",
     "application/vnd.openxmlformats-officedocument.wordprocessingml.document",
     "application/vnd.ms-excel",
     "application/vnd.openxmlformats-officedocument.spreadsheetml.sheet"}

\* The types a client declares for the part it sends.
DeclaredMimes == {"application/pdf", "application/msword", "text/plain"}

\* The q parameter of a request; <<>> is an absent or empty one.
ApiQueries == {<<>>, <<" ">>, <<"a">>, TextWord}

\* The text extracted from the bytes that upload b stored.
TextOfBytes(text, b) == IF text = NoText THEN NoText ELSE Append(text, b)

\* Date.now() moves on.
Tick ==
    /\ now < MaxClock
    /\ now' = now + 1
    /\ UNCHANGED <<storage, idxKind, index, searchable, up, bytes, srch>>
    /\ UNCHANGED apiFrame

\* Lines 82-90 with fileFilter (65-71) and storage.filename (48-53): multer
\* refuses a part of another declared type, otherwise it writes the part
\* under name-timestamp.ext, replacing a file of that name.
UploadRequest(s) ==
    /\ spc = "listening"
    /\ up[s].pc = "idle"
    /\ \E originalname \in OrigNames, mimetype \in DeclaredMimes :
          IF mimetype \notin allowedMimeTypes
          THEN /\ up' = [up EXCEPT ![s] = [IdleUp EXCEPT !.pc = "responded",
                                              !.originalname = originalname,
                                              !.mimetype = mimetype,
                                              !.status = 400]]
               /\ UNCHANGED <<storage, bytes>>
          ELSE LET filename == StoredName(originalname, now)
               IN  /\ storage' = [storage EXCEPT ![filename] = "file"]
                   /\ bytes' = [bytes EXCEPT ![filename] = s]
                   /\ up' = [up EXCEPT ![s] = [IdleUp EXCEPT !.pc = "extract",
                                                  !.originalname = originalname,
                                                  !.mimetype = mimetype,
                                                  !.filename = filename]]
    /\ UNCHANGED <<idxKind, index, searchable, now, srch>>
    /\ UNCHANGED apiFrame

\* Lines 93-98: extractText reads the file now stored under the name, with
\* the declared type.
UploadExtract(s) ==
    /\ up[s].pc = "extract"
    /\ \E out \in Outcomes :
          up' = [up EXCEPT ![s].pc = "index",
                           ![s].content =
                               TextOfBytes(extractText(up[s].filename,
                                                       up[s].mimetype, out),
                                           bytes[up[s].filename])]
    /\ UNCHANGED <<storage, idxKind, index, searchable, now, bytes, srch>>
    /\ UNCHANGED apiFrame

\* extractTextFromDoc (31-42): when textract never calls back, the await of
\* line 97 never returns and the request is never answered.
UploadExtractHangs(s) ==
    /\ up[s].pc = "extract"
    /\ up[s].mimetype = "application/msword"
    /\ up' = [up EXCEPT ![s].pc = "hung"]
    /\ UNCHANGED <<storage, idxKind, index, searchable, now, bytes, srch>>
    /\ UNCHANGED apiFrame

\* Lines 100-125: indexDocument, then the 200 answer; a throw gives 500 and
\* the stored file stays.
UploadIndex(s) ==
    /\ up[s].pc = "index"
    /\ \E out \in Outcomes :
          LET doc == [filename |-> up[s].filename,
                      originalname |-> up[s].originalname,
                      content |-> up[s].content,
                      size |-> Len(up[s].filename), uploadDate |-> "now"]
          IN  /\ up' = [up EXCEPT ![s].pc = "responded",
                                  ![s].status = IF out = "ok" THEN 200 ELSE 500,
                                  ![s].early = (sync.owner # "server")]
              /\ IF out = "ok"
                 THEN /\ index' = PutDoc(index, IndexBody(doc))
                      /\ idxKind' = KindAfterPut(idxKind)
                 ELSE UNCHANGED <<index, idxKind>>
    /\ UNCHANGED <<storage, searchable, now, bytes, srch>>
    /\ UNCHANGED apiFrame

\* GET /api/search, lines 130-157: searchDocuments is called for every q; a
\* throw (service failure, missing index) gives 500.
SearchRequest ==
    /\ spc = "listening"
    /\ srch.route = "none"
    /\ \E q \in ApiQueries, out \in Outcomes :
          LET raised == out = "fail" \/ idxKind = "absent"
          IN  srch' = [status |-> IF raised THEN 500 ELSE 200,
                       route |-> "search", q |-> q, source |-> "index",
                       hits |-> IF raised THEN {}
                                ELSE HitsOf(SearchRequestOf(q), searchable),
                       early |-> sync.owner # "server"]
    /\ UNCHANGED <<storage, idxKind, index, searchable, now, up, bytes>>
    /\ UNCHANGED apiFrame

\* GET /api/files, lines 159-196: a non-empty q goes to searchDocuments, an
\* absent or empty one to readdirSync and statSync; a throw gives 500.
FilesRequest ==
    /\ spc = "listening"
    /\ srch.route = "none"
    /\ \E q \in ApiQueries, out \in Outcomes :
          IF q # <<>>
          THEN LET raised == out = "fail" \/ idxKind = "absent"
               IN  srch' = [status |-> IF raised THEN 500 ELSE 200,
                            route |-> "files", q |-> q, source |-> "index",
                            hits |-> IF raised THEN {}
                                     ELSE HitsOf(SearchRequestOf(q), searchable),
                            early |-> sync.owner # "server"]
          ELSE LET listed == dirExists /\ \A n \in Names : storage[n] # "broken"
               IN  srch' = [status |-> IF listed THEN 200 ELSE 500,
                            route |-> "files", q |-> q, source |-> "storage",
                            hits |-> IF listed THEN SetOf(readdirSync(storage))
                                     ELSE {},
                            early |-> FALSE]
    /\ UNCHANGED <<storage, idxKind, index, searchable, now, up, bytes>>
    /\ UNCHANGED apiFrame

ApiNext ==
    \/ Refresh
    \/ ServerStart
    \/ ServerCheckConnection
    \/ ServerInitExists
    \/ ServerInitCreate
    \/ SyncGetAll
    \/ SyncDeleteOrphan
    \/ SyncExtractDone
    \/ SyncExtractHangs
    \/ SyncIndex
    \/ ServerListen
    \/ ServerExit
    \/ Tick
    \/ \E s \in Slots : UploadRequest(s)
    \/ \E s \in Slots : UploadExtract(s)
    \/ \E s \in Slots : UploadExtractHangs(s)
    \/ \E s \in Slots : UploadIndex(s)

\* The server is started on an installation with at most the files a.pdf
\* and b.DOC in the uploads directory and at most the document a.pdf.
ApiInit ==
    /\ Init
    /\ \A n \in Names : storage[n] \in {"none", "file"}
    /\ \A n \in Names \ {NameA, NameB} : storage[n] = "none"
    /\ DOMAIN index \subseteq {NameA}

ApiSpec == ApiInit /\ [][ApiNext]_vars

\* The server with its two query routes, on any installation.
QueryNext ==
    \/ Refresh
    \/ ServerStart
    \/ ServerCheckConnection
    \/ ServerInitExists
    \/ ServerInitCreate
    \/ SyncGetAll
    \/ SyncDeleteOrphan
    \/ SyncExtractDone
    \/ SyncExtractHangs
    \/ SyncIndex
    \/ ServerListen
    \/ ServerExit
    \/ SearchRequest
    \/ FilesRequest

QuerySpec == Init /\ [][QueryNext]_vars

\* The server with its upload route while the reconciliation is also run on
\* demand; the clock stands still.
LiveNext ==
    \/ Refresh
    \/ ServerStart
    \/ ServerCheckConnection
    \/ ServerInitExists
    \/ ServerInitCreate
    \/ SyncOnDemand
    \/ SyncGetAll
    \/ SyncDeleteOrphan
    \/ SyncExtractDone
    \/ SyncExtractHangs
    \/ SyncIndex
    \/ ServerListen
    \/ ServerExit
    \/ UploadRequest(1)
    \/ UploadExtract(1)
    \/ UploadExtractHangs(1)
    \/ UploadIndex(1)

\* The installation holds at most the file b.DOC and the document a.pdf.
LiveInit ==
    /\ ApiInit
    /\ storage[NameA] = "none"

LiveSpec == LiveInit /\ [][LiveNext]_vars

\* The server with its upload, delete and search routes; the clock stands
\* still.
RoutesNext ==
    \/ Refresh
    \/ ServerStart
    \/ ServerCheckConnection
    \/ ServerInitExists
    \/ ServerInitCreate
    \/ SyncGetAll
    \/ SyncDeleteOrphan
    \/ SyncExtractDone
    \/ SyncExtractHangs
    \/ SyncIndex
    \/ ServerListen
    \/ ServerExit
    \/ UploadRequest(1)
    \/ UploadExtract(1)
    \/ UploadExtractHangs(1)
    \/ UploadIndex(1)
    \/ DeleteRequest
    \/ DeleteFromIndex
    \/ SearchRequest

RoutesSpec == ApiInit /\ [][RoutesNext]_vars

\* The rebuild script run while the server is up and takes uploads; the
\* clock stands still.
RebuildLiveNext ==
    \/ Refresh
    \/ ServerStart
    \/ ServerCheckConnection
    \/ ServerInitExists
    \/ ServerInitCreate
    \/ SyncGetAll
    \/ SyncDeleteOrphan
    \/ SyncExtractDone
    \/ SyncExtractHangs
    \/ SyncIndex
    \/ ServerListen
    \/ ServerExit
    \/ UploadRequest(1)
    \/ UploadExtract(1)
    \/ UploadExtractHangs(1)
    \/ UploadIndex(1)
    \/ ReindexStart
    \/ ReindexCheck
    \/ ReindexDropExists
    \/ ReindexDropDelete
    \/ ReindexInitExists
    \/ ReindexInitCreate
    \/ ReindexExtractDone
    \/ ReindexExtractHangs
    \/ ReindexIndex

RebuildLiveSpec == LiveInit /\ [][RebuildLiveNext]_vars


\* -------------------------------- file-upload.component.ts: processHighlights
\* A fragment is the sequence of its pieces; a piece is a tag or a run of
\* text without "<", each the sequence of its characters, so that the
\* regular expressions of the component match exactly at the tag pieces.
OpenTag == <<"<", "s", "p", "a", "n", " ", "c", "l", "a", "s", "s", "=", "\"", "h", "i", "g", "h", "l", "i", "g", "h", "t", "\"", ">">>
FuzzyTag == <<"<", "s", "p", "a", "n", " ", "c", "l", "a", "s", "s", "=", "\"", "h", "i", "g", "h", "l", "i", "g", "h", "t", "-", "f", "u", "z", "z", "y", "\"", ">">>
CloseTag == <<"<", "/", "s", "p", "a", "n", ">">>
BoldOpen == <<"<", "b", ">">>
BoldClose == <<"<", "/", "b", ">">>

RECURSIVE Flat(_)
Flat(pieces) == IF pieces = <<>> THEN <<>> ELSE Head(pieces) \o Flat(Tail(pieces))

\* term.split(/\s+/).filter(t => t.length > 0), as the set some() looks into.
RECURSIVE SplitBlank(_, _)
SplitBlank(s, word) ==
    IF s = <<>> THEN (IF word = <<>> THEN {} ELSE {word})
    ELSE IF Head(s) = " "
    THEN (IF word = <<>> THEN {} ELSE {word}) \cup SplitBlank(Tail(s), <<>>)
    ELSE SplitBlank(Tail(s), Append(word, Head(s)))

\* Position of the first ">" of s, 0 when there is none.
RECURSIVE FirstGt(_, _)
FirstGt(s, i) == IF i > Len(s) THEN 0 ELSE IF s[i] = ">" THEN i ELSE FirstGt(s, i + 1)

\* content.replace(/<[^>]*>/g, '').
RECURSIVE StripTags(_)
StripTags(s) ==
    IF s = <<>> THEN <<>>
    ELSE IF Head(s) = "<" /\ FirstGt(s, 2) # 0
    THEN StripTags(SubSeq(s, FirstGt(s, 2) + 1, Len(s)))
    ELSE <<Head(s)>> \o StripTags(Tail(s))

\* The end of the lazy group (.*?): the first closing tag after piece i, 0
\* when there is none.
RECURSIVE FirstClose(_, _)
FirstClose(html, i) ==
    IF i > Len(html) THEN 0
    ELSE IF html[i] = CloseTag THEN i ELSE FirstClose(html, i + 1)

\* Lines 135-139: the span is written again around the captured content.
RewrapLowered(tag, content) ==
    <<tag>> \o [i \in 1..Len(content) |-> toLowerCase(content[i])] \o <<CloseTag>>
Rewrap(tag, content) == <<tag>> \o content \o <<CloseTag>>

\* Lines 129-140: the replacer of the first source of the component.
Replacer1(term, terms, content) ==
    LET lowerContent == toLowerCase(Flat(content))
        isExact == lowerContent \in terms \/ term = lowerContent
    IN  IF isExact THEN Rewrap(OpenTag, content) ELSE Rewrap(FuzzyTag, content)

\* Lines 390-401: the replacer of the second source of the component;
\* match.replace changes the class of the opening tag the match starts with.
Replacer2(term, match) ==
    LET content == SubSeq(match, 2, Len(match) - 1)
        highlightedText == toLowerCase(trim(StripTags(Flat(content))))
    IN  IF highlightedText = term THEN match ELSE <<FuzzyTag>> \o Tail(match)

\* html.replace(/<span class="highlight">(.*?)<\/span>/g, replacer): the
\* matches are taken from left to right and do not overlap.
RECURSIVE ReplaceSpans(_, _, _, _, _)
ReplaceSpans(build, term, terms, html, i) ==
    IF i > Len(html) THEN <<>>
    ELSE IF html[i] = OpenTag /\ FirstClose(html, i + 1) # 0
    THEN LET j == FirstClose(html, i + 1)
         IN  (IF build = 1
              THEN Replacer1(term, terms, SubSeq(html, i + 1, j - 1))
              ELSE Replacer2(term, SubSeq(html, i, j)))
             \o ReplaceSpans(build, term, terms, html, j + 1)
    ELSE <<html[i]>> \o ReplaceSpans(build, term, terms, html, i + 1)

\* processHighlights of lines 121-141 (build 1) and of lines 385-402 (build 2).
processHighlights(build, searchTerm, html) ==
    IF searchTerm = <<>> \/ trim(searchTerm) = <<>> \/ (build = 1 /\ html = <<>>)
    THEN html
    ELSE LET term == toLowerCase(trim(searchTerm))
         IN  ReplaceSpans(build, term, SplitBlank(term, <<>>), html, 1)

\* What the search box holds and what the highlighter of the index service
\* sends: text and spans of pre_tags/post_tags (elasticsearch.js 152-153).
WordReport == <<"r", "e", "p", "o", "r", "t">>
WordReportCap == <<"R", "e", "p", "o", "r", "t">>
WordReports == <<"r", "e", "p", "o", "r", "t", "s">>
WordRepot == <<"r", "e", "p", "o", "t">>
WordPhrase == <<"q", "u", "a", "r", "t", "e", "r", "l", "y", " ", "r", "e", "p", "o", "r", "t">>
TextAnd == <<" ", "a", "n", "d", " ">>

SearchTerms ==
    {<<>>, <<" ">>, WordReport, <<" ">> \o WordReportCap \o <<" ">>, WordPhrase}

SpanContents ==
    {<<WordReport>>, <<WordReportCap>>, <<WordReports>>, <<WordRepot>>,
     <<WordPhrase>>, <<BoldOpen, WordReport, BoldClose>>}

FragmentItems ==
    {<<TextAnd>>} \cup {<<OpenTag>> \o c \o <<CloseTag>> : c \in SpanContents}

MaxItems == 2        \* texts and spans in one fragment

RECURSIVE FragmentsOf(_)
FragmentsOf(n) ==
    IF n = 0 THEN {<<>>}
    ELSE FragmentsOf(n - 1)
         \cup {f \o item : f \in FragmentsOf(n - 1), item \in FragmentItems}

HlInit ==
    /\ InitWorld
    /\ dirExists /\ idxKind = "absent"
    /\ storage = [n \in Names |-> "none"]
    /\ xt = IdleXt
    /\ rk = IdleRk
    /\ hl \in {[IdleHl EXCEPT !.build = b, !.searchTerm = t, !.html = h] :
                  b \in {1, 2}, t \in SearchTerms, h \in FragmentsOf(MaxItems)}

\* Lines 84-111 (363-383): the template renders a fragment of a hit.
RenderHighlight ==
    /\ hl.pc = "idle"
    /\ hl' = [hl EXCEPT !.pc = "done",
                        !.out = processHighlights(hl.build, hl.searchTerm, hl.html)]
    /\ UNCHANGED <<dirExists, storage, idxKind, index, searchable, sync, slog, prev,
                   runs, envCount, spc, del, lres, rx, rlog, now, up, bytes, srch,
                   ens, call, bulk, xt, rk>>

HlNext == RenderHighlight

HlSpec == HlInit /\ [][HlNext]_vars

\* ----------------------------------------- textExtractor.js: extractText
\* The mimetype arguments the callers pass: the declared type of an upload
\* (index.js 97), getMimeType of the reconciliation (elasticsearch.js 320)
\* and getMimeType of the rebuild (sync.js 201); "null" is a missing one.
ExtractMimes ==
    ExtractableMimes \cup {"application/octet-stream", "text/plain", "null"}

\* What the library of a format extractor does in one call: it gives the
\* text, it reports an error, or it throws where it is called.
LibOutcomes == {"ok", "fail", "throws"}

\* The switch of lines 71-88 if every type went to the PDF extractor.
ExtractorOfAny(mimetype) == "extractTextFromPDF"
\* The switch of lines 71-88: the format extractor a declared type goes to.
ExtractorOf(mimetype) ==
    CASE mimetype = "application/pdf" -> "extractTextFromPDF"
      [] mimetype = "application/vnd.openxmlformats-officedocument.wordprocessingml.document"
            -> "extractTextFromWord"
      [] mimetype = "application/msword" -> "extractTextFromDoc"
      [] mimetype \in {"application/vnd.openxmlformats-officedocument.spreadsheetml.sheet",
                        "application/vnd.ms-excel"} -> "extractTextFromExcel"
      [] OTHER -> "none"

\* How the promise of a format extractor settles.  The PDF, Word and Excel
\* extractors catch every error and resolve with ''; extractTextFromDoc
\* resolves in textract's callback, with '' on an error, and rejects when
\* textract throws inside the executor.
ExtractorSettles(extractor, filename, outcome) ==
    IF outcome = "ok" THEN [how |-> "resolved", value |-> TextOf(filename)]
    ELSE IF outcome = "throws" /\ extractor = "extractTextFromDoc"
    THEN [how |-> "rejected", value |-> NullText]
    ELSE [how |-> "resolved", value |-> NoText]

\* extractText, lines 69-93: the value awaited from the extractor is
\* returned; a rejection is caught (89-92) and gives ''; the default branch
\* gives '' without a call.
ExtractTextCall(filename, mimetype, outcome) ==
    LET extractor == ExtractorOf(mimetype)
        r == ExtractorSettles(extractor, filename, outcome)
    IN  IF extractor = "none"
        THEN [pc |-> "returned", invoked |-> "none", outcome |-> "none",
              value |-> NoText]
        ELSE [pc |-> "returned", invoked |-> extractor, outcome |-> outcome,
              value |-> IF r.how = "rejected" THEN NoText ELSE r.value]

\* extractText is called with a path and a declared type.
XtInit ==
    /\ InitWorld
    /\ dirExists /\ idxKind = "absent"
    /\ storage = [n \in Names |-> "none"]
    /\ hl = IdleHl
    /\ rk = IdleRk
    /\ xt \in {[IdleXt EXCEPT !.filePath = n, !.mimetype = m] :
                  n \in Names, m \in ExtractMimes}

xtFrame ==
    <<dirExists, storage, idxKind, index, searchable, sync, slog, prev, runs,
      envCount, spc, del, lres, rx, rlog, now, up, bytes, srch, ens, call, bulk,
      hl, rk>>

\* The call settles and extractText returns.
ExtractTextReturns ==
    /\ xt.pc = "idle"
    /\ \E outcome \in LibOutcomes :
          LET r == ExtractTextCall(xt.filePath, xt.mimetype, outcome)
          IN  xt' = [xt EXCEPT !.pc = r.pc, !.invoked = r.invoked,
                               !.outcome = r.outcome, !.value = r.value]
    /\ UNCHANGED xtFrame

\* extractTextFromDoc (31-42): textract never calls back, the promise stays
\* pending and extractText never returns.
ExtractTextPends ==
    /\ xt.pc = "idle"
    /\ ExtractorOf(xt.mimetype) = "extractTextFromDoc"
    /\ xt' = [xt EXCEPT !.pc = "pending", !.invoked = "extractTextFromDoc"]
    /\ UNCHANGED xtFrame

XtNext ==
    \/ ExtractTextReturns
    \/ ExtractTextPends

XtSpec == XtInit /\ [][XtNext]_vars

\* ------------------------------- elasticsearch.js: searchDocuments, ranking
\* The boosts of the should clauses of lines 112-147.
BoostExact == 100
BoostAnd == 50
BoostFuzzy == 10
BoostOr == 1

WordQuarterly == <<"q", "u", "a", "r", "t", "e", "r", "l", "y">>

\* The terms of the query "quarterly report", in order.
RankQuery == <<WordQuarterly, WordReport>>

\* The content of a document, as the words the analyzers of lines 47-53
\* index; the file names of the documents hold no word of the query.
RankContents ==
    {<<WordQuarterly, WordReport>>, <<WordReport, WordQuarterly>>,
     <<WordQuarterly, WordRepot>>, <<WordRepot>>, <<WordQuarterly>>, <<TextWord>>}

MaxSim == 3          \* largest similarity, in units of the smallest one

\* a and b are at most k edits (insert, delete, substitute, transpose) apart.
RECURSIVE Within(_, _, _)
Within(a, b, k) ==
    IF k < 0 THEN FALSE
    ELSE IF a = <<>> THEN Len(b) <= k
    ELSE IF b = <<>> THEN Len(a) <= k
    ELSE IF Head(a) = Head(b) THEN Within(Tail(a), Tail(b), k)
    ELSE \/ Within(Tail(a), b, k - 1)
         \/ Within(a, Tail(b), k - 1)
         \/ Within(Tail(a), Tail(b), k - 1)
         \/ /\ Len(a) > 1 /\ Len(b) > 1 /\ a[1] = b[2] /\ a[2] = b[1]
            /\ Within(Tail(Tail(a)), Tail(Tail(b)), k - 1)

\* fuzziness: 'AUTO' (line 132): the edits allowed for a term of that length.
AutoFuzziness(term) == IF Len(term) < 3 THEN 0 ELSE IF Len(term) < 6 THEN 1 ELSE 2

\* Lines 132-133: the word is within the allowed edits of the term and
\* starts with the same character (prefix_length: 1).
FuzzyTerm(term, word) ==
    Head(term) = Head(word) /\ Within(term, word, AutoFuzziness(term))

\* Line 114: match_phrase with slop 0 on content.exact.
PhraseClause(qs, content) ==
    \E i \in 1..(Len(content) - Len(qs) + 1) :
       SubSeq(content, i, i + Len(qs) - 1) = qs
\* Lines 118-125: multi_match with operator and.
AndClause(qs, content) ==
    \A i \in 1..Len(qs) : \E j \in 1..Len(content) : content[j] = qs[i]
\* Lines 128-136: multi_match with fuzziness AUTO.
FuzzyClause(qs, content) ==
    \E i \in 1..Len(qs) : \E j \in 1..Len(content) : FuzzyTerm(qs[i], content[j])
\* Lines 139-146: multi_match with operator or.
OrClause(qs, content) ==
    \E i \in 1..Len(qs) : \E j \in 1..Len(content) : content[j] = qs[i]

\* bool.should (lines 111-148): the score of a document is the sum, over the
\* clauses it matches, of the boost times the similarity the index service
\* computes for the document (term frequency, field length); a document
\* that matches no clause scores 0 and is not a hit (minimum_should_match).
ScoreOf(qs, content, sim) ==
    sim * ((IF PhraseClause(qs, content) THEN BoostExact ELSE 0)
           + (IF AndClause(qs, content) THEN BoostAnd ELSE 0)
           + (IF FuzzyClause(qs, content) THEN BoostFuzzy ELSE 0)
           + (IF OrClause(qs, content) THEN BoostOr ELSE 0))

\* The hits by descending score; equal scores stay in the order of the index.
RankedHits(score) ==
    LET hit == SelectSeq(<<1, 2>>, LAMBDA d : score[d] > 0)
    IN  IF Len(hit) = 2 /\ score[2] > score[1] THEN <<2, 1>> ELSE hit

\* Two documents are indexed and the query is sent.
RankInit ==
    /\ InitWorld
    /\ dirExists /\ idxKind = "mapped"
    /\ storage = [n \in Names |-> "none"]
    /\ index = EmptyIndex
    /\ hl = IdleHl
    /\ xt = IdleXt
    /\ rk \in {[IdleRk EXCEPT !.content = <<c1, c2>>, !.sim = <<s1, s2>>] :
                  c1 \in RankContents, c2 \in RankContents,
                  s1 \in 1..MaxSim, s2 \in 1..MaxSim}

\* Lines 107-176: the index service scores the documents and returns the
\* hits by descending score.
RankSearch ==
    /\ rk.pc = "idle"
    /\ LET score == [d \in {1, 2} |-> ScoreOf(RankQuery, rk.content[d], rk.sim[d])]
       IN  rk' = [rk EXCEPT !.pc = "done", !.score = score,
                            !.hits = RankedHits(score)]
    /\ UNCHANGED <<dirExists, storage, idxKind, index, searchable, sync, slog, prev,
                   runs, envCount, spc, del, lres, rx, rlog, now, up, bytes, srch,
                   ens, call, bulk, hl, xt>>

RankNext == RankSearch

RankSpec == RankInit /\ [][RankNext]_vars

\* ------------------------------------------------------------ the claims
SupportedExts == {ExtPdf, ExtDoc, ExtDocx, ExtXls, ExtXlsx}
HasSupportedExt(n) == toLowerCase(extname(n)) \in SupportedExts

\* n is a regular, non-hidden file of the storage sto.
ListedFile(sto, n) == sto[n] = "file" /\ ~startsWithDot(n)

\* What a format extractor gives for file n when it ends with outcome out.
Expected(n, out) == IF out = "ok" THEN TextOf(n) ELSE NoText

\* C1, as stated: a completed reconciliation run has deleted exactly the
\* documents, indexed when it started, whose backing file is absent from
\* storage; a document whose file is present, whatever its name, is kept.
\* (Read in the claim's favour: for a run that found the uploads directory
\* and in which no index call failed.)
C1_AsStated ==
    sync.pc = "done" /\ slog.hadDir /\ ~slog.failed =>
        slog.deleted = {id \in slog.ids0 : slog.sto0[id] # "file"}

C3_AsStated ==
    /\ sync.pc = "done" =>
          \A n \in Names :
             HasSupportedExt(n) /\ slog.sto0[n] = "file" /\ n \notin slog.ids0 =>
                \E out \in Outcomes :
                   <<n, out>> \in slog.exOut /\ <<n, Expected(n, out)>> \in slog.upIssued
    /\ sync.pc = "threw" => slog.exOut = {} /\ slog.upIssued = {}

\* C3, amended: the same for every non-hidden supported-type regular file of
\* the storage listing that the index listing lacks, in a run during which
\* storage is not changed; the document stored by a successful upsert has
\* that content.  The run throws only before it handles any file.
C3_NewFilePickup ==
    /\ sync.pc = "done" /\ slog.stoSame =>
          \A n \in Names :
             HasSupportedExt(n) /\ ListedFile(slog.sto0, n) /\ n \notin slog.ids0 =>
                \E out \in Outcomes :
                   /\ <<n, out>> \in slog.exOut
                   /\ <<n, Expected(n, out)>> \in slog.upIssued
                   /\ n \in slog.upOk /\ slog.idxQuiet =>
                         /\ n \in DOMAIN index
                         /\ index[n].content = Expected(n, out)
    /\ sync.pc = "threw" => slog.exOut = {} /\ slog.upIssued = {}

\* A completed run picked up two new files: the extraction of one failed and
\* it was indexed with empty content, the other was indexed with its text.
C3_Witness ==
    /\ sync.pc = "done" /\ slog.stoSame
    /\ \E n, m \in Names :
          /\ n # m
          /\ <<n, "fail">> \in slog.exOut /\ <<n, NoText>> \in slog.upIssued
          /\ <<m, "ok">> \in slog.exOut /\ m \in slog.upOk
          /\ index[m].content = TextOf(m)

C5_AsStated ==
    del.pc = "responded" /\ del.status = 200 => del.filename \notin DOMAIN index

\* C6: an unsupported-type file in storage is never upserted by a
\* reconciliation run, its document is never deleted and no error is
\* reported for it.
SyncIgnoresUnsupported ==
    \A n \in Names :
       ~HasSupportedExt(n) =>
          /\ \A p \in slog.upIssued : p[1] # n
          /\ ListedFile(slog.sto0, n) => n \notin slog.delIssued
          /\ n \notin slog.errFiles

C7_AsStated == sync.pc = "threw" => slog.cause # "stat"

\* C8, as stated: a run whose extraction of one file never returns still
\* completes.
C8_AsStated == (sync.pc = "hung") ~> (sync.pc = "done")

\* C9, as stated: after a rebuild that exits with 0 without a failing index
\* call, storage and index untouched by anyone else, the indexed ids are the
\* supported-type, non-hidden regular files in storage.
C9_AsStated ==
    rx.pc = "exit0" /\ ~rlog.failed /\ rlog.stoSame /\ rlog.idxQuiet =>
        DOMAIN index =
           {n \in Names : storage[n] = "file" /\ HasSupportedExt(n) /\ ~startsWithDot(n)}

\* C10, as stated: the rebuild exits with a non-zero status only when the
\* connectivity check, the index drop or the schema creation failed; a file
\* that cannot be stat-ed does not make it exit with a non-zero status.
\* (Read in the claim's favour: for a rebuild that found the uploads
\* directory.)
C10_AsStated ==
    rx.pc = "exit1" /\ rlog.listed => rlog.cause \in {"connect", "drop", "create"}

\* C11, as stated: when initElasticsearch is called by two tasks, in any
\* interleaving, and the index service answers every request and nothing else
\* is called on the index, no call raises an error.
C11_AsStated ==
    ~ens.failed /\ call.n = 0 => \A c \in Callers : ens.pc[c] # "threw"

\* C13, as stated: a call of deleteDocument raises no error; with an id the
\* index does not hold it leaves the index as it was, with an id the index
\* holds it removes that document and no other.
C13_AsStated ==
    call.op = "delete" =>
        /\ ~call.raised
        /\ call.arg \notin DOMAIN call.before => index = call.before
        /\ call.arg \in DOMAIN call.before => index = RemoveDoc(call.before, call.arg)

\* C14: after a call of indexDocument that succeeded, the index holds a
\* document under the id of the given document, every field of it is the
\* field of the given document, its content is a string (the empty one when
\* none was given, never null), and the documents under the other ids are
\* the ones the index held before the call.
C14_UpsertReplaces ==
    call.op = "index" /\ ~call.raised =>
        LET id == call.arg
            given == call.doc
        IN  /\ DOMAIN index = DOMAIN call.before \cup {id}
            /\ index[id].filename = id
            /\ index[id].originalname = given.originalname
            /\ index[id].size = given.size
            /\ index[id].content # NullText
            /\ index[id].content =
                  (IF given.content = NullText THEN NoText ELSE given.content)
            /\ given.uploadDate # "null" => index[id].uploadDate = given.uploadDate
            /\ \A i \in DOMAIN call.before \ {id} : index[i] = call.before[i]

\* C14: a successful indexDocument replaced a different document under the
\* same id, was given no content, and the index holds another document too.
C14_Witness ==
    /\ call.op = "index" /\ ~call.raised
    /\ call.arg \in DOMAIN call.before
    /\ call.before[call.arg].originalname # index[call.arg].originalname
    /\ call.before[call.arg].content # NoText
    /\ call.doc.content = NullText
    /\ DOMAIN call.before # {call.arg}

\* The documents a listing request of the last call could return.
ListedTotal == Cardinality(DOMAIN call.seen) + bulk

C15_DeleteOrder ==
    [][/\ del.pc = "idle" /\ del'.pc # "idle" =>
             LET f == del'.filename
             IN  /\ index' = index
                 /\ ~(dirExists /\ storage[f] \in {"file", "dir"}) =>
                       /\ del'.pc = "responded" /\ del'.status = 404
                       /\ storage' = storage
                 /\ dirExists /\ storage[f] = "file" =>
                       /\ del'.pc = "esDelete"
                       /\ storage' = [storage EXCEPT ![f] = "none"]
       /\ del.pc = "esDelete" /\ del'.pc # "esDelete" =>
             /\ del'.pc = "responded" /\ del'.status = 200
             /\ storage' = storage
             /\ index' \in {index, RemoveDoc(index, del.filename)}
       /\ spc = "listening" /\ DOMAIN index \ DOMAIN index' # {} =>
             del.pc = "esDelete"
      ]_vars

\* C15: a DELETE has answered with success for a file whose name the index
\* never held.
C15_Witness ==
    /\ del.pc = "responded" /\ del.status = 200
    /\ idxKind = "mapped" /\ rlog.idxQuiet
    /\ del.filename \notin DOMAIN index

\* C19, as stated: a startup reconciliation that failed does not end the
\* server process.
C19_AsStated ==
    sync.owner = "server" /\ sync.pc = "threw" => spc # "exited"

\* C12, as stated: the server process issues no indexDocument and no
\* searchDocuments before its initElasticsearch has completed successfully.
C12_AsStated ==
    /\ \A s \in Slots : ~up[s].early
    /\ ~srch.early

\* C16, as stated: when POST /api/upload answers with success, the file this
\* request uploaded is in storage under the returned filename, and the index
\* holds under that filename a document with that filename, the original
\* name the user gave and the text extracted from the uploaded file (the
\* empty text when the extraction failed).
C16_AsStated ==
    [][\A s \in Slots :
          up[s].pc = "index" /\ up'[s].pc = "responded" /\ up'[s].status = 200 =>
              LET filename == up[s].filename
              IN  /\ storage'[filename] = "file"
                  /\ bytes'[filename] = s
                  /\ filename \in DOMAIN index'
                  /\ index'[filename].filename = filename
                  /\ index'[filename].originalname = up[s].originalname
                  /\ index'[filename].content \in
                        {NoText, TextOfBytes(TextOf(filename), s)}
      ]_vars

\* C17, as stated: two uploads that were both answered with success are
\* stored under different filenames.
C17_AsStated ==
    \A s, t \in Slots :
        s # t /\ up[s].status = 200 /\ up[t].status = 200 =>
            up[s].filename # up[t].filename

\* C18, as stated: GET /api/files with an absent or empty q answers from the
\* storage listing without a call of the index service, with any other q it
\* answers with the result of searchDocuments, and a failure of the index
\* service never ends the server process (the only exit is the one of a
\* startup reconciliation that could not stat a directory entry).
C18_AsStated ==
    /\ srch.route = "files" /\ srch.q = <<>> => srch.source = "storage"
    /\ srch.route = "files" /\ srch.q # <<>> => srch.source = "index"
    /\ spc = "exited" => sync.owner = "server" /\ slog.cause = "stat"

\* The highlighted spans of a fragment, in order, with the label their
\* marker stands for.
RECURSIVE SpansOf(_, _)
SpansOf(html, i) ==
    IF i > Len(html) THEN <<>>
    ELSE IF html[i] \in {OpenTag, FuzzyTag} /\ FirstClose(html, i + 1) # 0
    THEN <<[label |-> IF html[i] = OpenTag THEN "exact" ELSE "fuzzy",
            content |-> SubSeq(html, i + 1, FirstClose(html, i + 1) - 1)]>>
         \o SpansOf(html, FirstClose(html, i + 1) + 1)
    ELSE SpansOf(html, i + 1)

\* The span holds markup of its own.
HasNestedTag(content) == \E k \in 1..Len(content) : content[k][1] = "<"

\* The lowercased, whitespace-separated terms of the query.
QueryTerms(searchTerm) == SplitBlank(toLowerCase(trim(searchTerm)), <<>>)

\* C21, as stated: for a non-empty query, every span without markup of its
\* own is labelled exact when its lowercased text is one of the query terms
\* or the whole trimmed lowercased query, and fuzzy otherwise.
C21_AsStated ==
    hl.pc = "done" /\ trim(hl.searchTerm) # <<>> =>
        LET given == SpansOf(hl.html, 1)
            made == SpansOf(hl.out, 1)
        IN  /\ Len(made) = Len(given)
            /\ \A k \in 1..Len(given) :
                  ~HasNestedTag(given[k].content) =>
                      LET text == toLowerCase(Flat(given[k].content))
                      IN  made[k].label = "exact" <=>
                             \/ text \in QueryTerms(hl.searchTerm)
                             \/ text = toLowerCase(trim(hl.searchTerm))

\* C25, as stated: for a query of one term, a span with markup of its own
\* whose text, with the nested tags removed and lowercased, is that term is
\* labelled exact.
C25_AsStated ==
    hl.pc = "done" /\ QueryTerms(hl.searchTerm) = {toLowerCase(trim(hl.searchTerm))} =>
        LET given == SpansOf(hl.html, 1)
            made == SpansOf(hl.out, 1)
        IN  \A k \in 1..Len(given) :
               /\ HasNestedTag(given[k].content)
               /\ toLowerCase(StripTags(Flat(given[k].content)))
                     \in QueryTerms(hl.searchTerm)
               => k <= Len(made) /\ made[k].label = "exact"

\* The fragment with every fuzzy marker turned back into the marker of the
\* index service.
Unlabel(html) ==
    [i \in 1..Len(html) |-> IF html[i] = FuzzyTag THEN OpenTag ELSE html[i]]

C24_AsStated ==
    sync.pc = "done" /\ slog.hadDir /\ ~slog.failed /\ slog.stoSame /\ slog.idxQuiet =>
    /\ sync.skippedCount =
          Cardinality({n \in Names : ListedFile(slog.sto0, n) /\ ~HasSupportedExt(n)})
    /\ sync.indexedCount = Cardinality(slog.upOk)
    /\ sync.orphanedLen = Cardinality(slog.deleted)

\* C27, as stated: no step of a reconciliation run changes storage, and no
\* step of it changes a document that is in the index and whose backing file
\* is in storage: its fields, originalname included, stay as they were.
C27_AsStated ==
    [][sync'.pc # sync.pc \/ slog'.upIssued # slog.upIssued
                          \/ slog'.delIssued # slog.delIssued =>
          /\ storage' = storage
          /\ \A n \in DOMAIN index :
                storage[n] = "file" /\ n \in DOMAIN index' => index'[n] = index[n]]_vars

\* C28, as stated: when indexDocument throws in POST /api/upload the request
\* is answered with an error, the stored file stays and the index is not
\* written; a reconciliation run that listed storage with that file in it
\* and completed without a failure has left a document for the file whose
\* originalname is the stored filename, not the name the user supplied.
C28_AsStated ==
    /\ [][\A s \in Slots :
            up[s].pc = "index" /\ up'[s].status = 500 =>
               /\ storage' = storage /\ storage[up[s].filename] = "file"
               /\ index' = index]_vars
    /\ [](\A s \in Slots :
            /\ up[s].status = 500
            /\ sync.pc = "done" /\ slog.hadDir /\ ~slog.failed
            /\ slog.sto0[up[s].filename] = "file"
            => /\ up[s].filename \in DOMAIN index
               /\ index[up[s].filename].originalname = up[s].filename
               /\ up[s].filename # up[s].originalname)

\* C29: the server listens only once its startup reconciliation has
\* returned, or without any run when the index service does not answer the
\* ping; while the startup run is between its listings and its last delete
\* or upsert, no upload, delete or search request is handled.
C29_ListenAfterSync ==
    /\ [](spc = "listening" => sync.pc \in {"idle", "done"})
    /\ [][sync.owner = "server" /\ SyncActive =>
            up' = up /\ del' = del /\ srch' = srch]_vars

\* The startup run has upserted a document, and the server has since
\* handled an upload, a delete and a search request.
C29_Witness ==
    /\ spc = "listening" /\ sync.owner = "server" /\ sync.pc = "done"
    /\ slog.upOk # {}
    /\ up[1].pc = "responded" /\ del.pc = "responded" /\ srch.route = "search"

\* C30, as stated: when the rebuild has exited with 0 while the server took
\* uploads, the index carries the schema that the rebuild's
\* initElasticsearch creates, and every file the rebuild listed and handled
\* has a document.  (Read in the claim's favour: for a rebuild in which no
\* upsert failed and during which only uploads, no reconciliation run and
\* no server start, wrote to the index.)
C30_AsStated ==
    rx.pc = "exit0" /\ ~rlog.failed /\ rlog.idxQuiet =>
    /\ idxKind = "mapped"
    /\ \A n \in rlog.upIssued : n \in DOMAIN index

C22_AsStated ==
    rk.pc = "done" =>
       \A d1 \in {1, 2}, d2 \in {1, 2} :
          /\ PhraseClause(RankQuery, rk.content[d1])
          /\ ~PhraseClause(RankQuery, rk.content[d2])
          /\ rk.score[d2] > 0
          => rk.score[d1] > rk.score[d2] /\ rk.hits = <<d1, d2>>

====
